---- MODULE Spec2Model ----
(***************************************************************************)
(* State-machine model of src/src/App.js (the Veo 3 prompt generator):     *)
(* the React state of the App component, the asynchronous generatePrompt   *)
(* handler with its two suspension points (await fetch, await              *)
(* response.json()), the synchronous copyToClipboard handler, and the      *)
(* timers the component schedules.                                         *)
(*                                                                         *)
(* JavaScript values are tagged records [type, val]; a string is a         *)
(* sequence of tokens, so that template literals are concatenations and    *)
(* "the message contains the status code" is a statement about tokens.     *)
(***************************************************************************)
EXTENDS Integers, Sequences, FiniteSets, TLC

\* ------------------------------------------------------------------ bounds
MaxSubmits == 2     \* generatePrompt invocations explored
MaxCopies == 2      \* copyToClipboard invocations explored
MaxEdited == 1      \* form fields that differ from their defaults at a time

\* ------------------------------------------------------- JavaScript values
Str(s) == [type |-> "string", val |-> s]
Undefined == [type |-> "undefined", val |-> <<>>]
Null == [type |-> "null", val |-> <<>>]
Obj(r) == [type |-> "object", val |-> r]
Arr(s) == [type |-> "array", val |-> s]
\* a response body that is not JSON: response.json() rejects on it
Unparsable == [type |-> "unparsable", val |-> <<>>]

EmptyStr == Str(<<>>)
EmptyObj == Obj(<<>>)

IsNullish(v) == v.type \in {"undefined", "null"}

\* ToBoolean, as used by &&, ||, ?: and JSX {x && ...}
Truthy(v) ==
    CASE v.type \in {"undefined", "null"} -> FALSE
      [] v.type = "string" -> v.val # <<>>
      [] OTHER -> TRUE

\* v.k on a value that is not null/undefined
Get(v, k) ==
    IF v.type = "object" /\ k \in DOMAIN v.val THEN v.val[k] ELSE Undefined

\* v?.k
OptGet(v, k) == IF IsNullish(v) THEN Undefined ELSE Get(v, k)

\* v.length > 0 (undefined > 0 is false)
LengthPositive(v) == v.type \in {"array", "string"} /\ Len(v.val) > 0

\* v[0] taken from the wrong end
FirstAsLast(v) ==
    CASE v.type = "array" /\ Len(v.val) > 0 -> v.val[Len(v.val)]
      [] v.type = "string" /\ Len(v.val) > 0 -> Str(<<v.val[Len(v.val)]>>)
      [] OTHER -> Undefined

\* v[0]
First(v) ==
    CASE v.type = "array" /\ Len(v.val) > 0 -> v.val[1]
      [] v.type = "string" /\ Len(v.val) > 0 -> Str(<<v.val[1]>>)
      [] OTHER -> Undefined

\* `${v}`
ToStr(v) ==
    CASE v.type = "string" -> v.val
      [] v.type = "undefined" -> <<"undefined">>
      [] v.type = "null" -> <<"null">>
      [] v.type = "array" -> <<"[array]">>
      [] OTHER -> <<"[object Object]">>

\* a || b
Or(a, b) == IF Truthy(a) THEN a ELSE b

\* --------------------------------------------------------- the environment
Part(text) == Obj([text |-> text])
Candidates(parts) == Obj([candidates |-> Arr(<<Obj([content |-> Obj([parts |-> parts])])>>)])
ErrorBody(msg) == Obj([error |-> Obj([message |-> msg])])

\* bodies the remote service may answer with
Bodies ==
    { Unparsable,
      Null,
      EmptyObj,
      Obj([candidates |-> Arr(<<>>)]),
      Obj([candidates |-> Arr(<<Null>>)]),
      Obj([candidates |-> Arr(<<EmptyObj>>)]),
      Obj([candidates |-> Arr(<<Obj([content |-> EmptyObj])>>)]),
      Candidates(Arr(<<>>)),
      Candidates(Arr(<<Null>>)),
      Candidates(Arr(<<EmptyObj>>)),
      Candidates(Arr(<<Part(EmptyStr)>>)),
      Candidates(Arr(<<Part(Str(<<"X">>))>>)),
      Candidates(Arr(<<Part(Str(<<"Y">>)), Part(Str(<<"X">>))>>)),
      Obj([error |-> EmptyObj]),
      ErrorBody(EmptyStr),
      ErrorBody(Str(<<"server down">>)) }

Statuses == {200, 404, 500}

StatusText(status) ==
    CASE status = 200 -> "OK"
      [] status = 404 -> "Not Found"
      [] OTHER -> "Internal Server Error"

Responses == [status : Statuses, body : Bodies]

\* Response.ok
Ok(response) == response.status \in 200..299

\* the call record of a generatePrompt invocation that awaits fetch
NoResponse == [status |-> 0, body |-> Undefined]

\* err.message of the exceptions the environment raises
FetchErrorMessage == <<"Failed to fetch">>
SyntaxErrorMessage == <<"Unexpected token">>
TypeErrorMessage == <<"Cannot read properties">>

\* ExecCommand outcomes of document.execCommand('copy')
ExecCommandOutcomes == {"true", "false", "throw"}

\* ------------------------------------------------------------- form fields
TextFields == {"sceneDescription", "subjectFocus", "cameraMovements", "visualStyle",
               "additionalKeywords", "textToSpeech"}
SelectFields == {"timeOfDay", "genre", "lightingConditions", "videoFormat"}
FieldNames == TextFields \cup SelectFields

\* the values of the <option> elements of a select
Options(f) ==
    CASE f = "timeOfDay" -> {"Day", "Night", "Sunset", "Sunrise"}
      [] f = "genre" -> {"Sci-fi", "Fantasy", "Horror", "Comedy", "Action", "Documentary"}
      [] f = "lightingConditions" -> {"Soft", "Harsh", "Dramatic", "Natural"}
      [] f = "videoFormat" -> {"landscape", "portrait"}

\* e.target.value of an onChange event: what the user typed into a textarea
\* (here nothing, or a text that holds double quotes), or the value of the
\* option chosen in a select
Typed == {<<>>, <<"say ", "\"hi\"">>}
FieldValues(f) ==
    IF f \in TextFields THEN {Str(t) : t \in Typed} ELSE {Str(<<o>>) : o \in Options(f)}

DefaultFields ==
    [f \in FieldNames |->
        CASE f = "timeOfDay" -> Str(<<"Day">>)
          [] f = "genre" -> Str(<<"Sci-fi">>)
          [] f = "lightingConditions" -> Str(<<"Soft">>)
          [] f = "videoFormat" -> Str(<<"landscape">>)
          [] OTHER -> EmptyStr]

\* the phrase after || in the field's slot of the template
Fallback(f) ==
    CASE f = "sceneDescription" -> "A captivating and dynamic scene"
      [] f = "subjectFocus" -> "A central, engaging figure or object"
      [] f = "cameraMovements" ->
            "Sophisticated and fluid camera work (e.g., cinematic tracking shot, slow push-in, dynamic drone view)"
      [] f = "visualStyle" ->
            "A visually stunning and coherent artistic style (e.g., hyperrealistic, fantastical, neo-noir, intricate anime)"
      [] f = "lightingConditions" -> "Artful and evocative lighting"
      [] f = "additionalKeywords" ->
            "Incorporate rich textures, vibrant colors, atmospheric effects (e.g., volumetric fog, lens flares), detailed reflections, high fidelity, 8K, highly detailed, photorealistic render"

NoDialogue == "No spoken dialogue specified."
DialoguePrefix == "Integrate the following dialogue naturally into the video concept: \""
DialogueSuffix == "\""

\* the fixed text of the template around the slots
Preamble == "Generate a highly creative, ... Here are the inputs:"
Closing == "The final prompt should be ... Example output format: ..."
Label(f) ==
    CASE f = "sceneDescription" -> "- Scene Description: "
      [] f = "subjectFocus" -> "- Subject Focus: "
      [] f = "cameraMovements" -> "- Camera Movements: "
      [] f = "visualStyle" -> "- Visual Style: "
      [] f = "timeOfDay" -> "- Time of Day: "
      [] f = "genre" -> "- Genre: "
      [] f = "lightingConditions" -> "- Lighting Conditions: "
      [] f = "additionalKeywords" -> "- Additional Keywords: "
      [] f = "textToSpeech" -> "- Text-to-Speech: "
      [] f = "videoFormat" -> "- Video Format: "

\* ${v || 'phrase'}
OrFallback(fs, f) == ToStr(Or(fs[f], Str(<<Fallback(f)>>)))

\* the template with ${cameraMovements} in place of ${cameraMovements || '...'}
PromptTextCameraWithoutFallback(fs) ==
    <<Preamble>>
    \o <<Label("sceneDescription")>> \o OrFallback(fs, "sceneDescription")
    \o <<Label("subjectFocus")>> \o OrFallback(fs, "subjectFocus")
    \o <<Label("cameraMovements")>> \o ToStr(fs["cameraMovements"])
    \o <<Label("visualStyle")>> \o OrFallback(fs, "visualStyle")
    \o <<Label("timeOfDay")>> \o ToStr(fs["timeOfDay"])
    \o <<Label("genre")>> \o ToStr(fs["genre"])
    \o <<Label("lightingConditions")>> \o OrFallback(fs, "lightingConditions")
    \o <<Label("additionalKeywords")>> \o OrFallback(fs, "additionalKeywords")
    \o <<Label("textToSpeech")>>
    \o (IF Truthy(fs["textToSpeech"])
        THEN <<DialoguePrefix>> \o ToStr(fs["textToSpeech"]) \o <<DialogueSuffix>>
        ELSE <<NoDialogue>>)
    \o <<Label("videoFormat")>> \o ToStr(fs["videoFormat"])
    \o <<Closing>>

\* const promptText = `...`
PromptText(fs) ==
    <<Preamble>>
    \o <<Label("sceneDescription")>> \o OrFallback(fs, "sceneDescription")
    \o <<Label("subjectFocus")>> \o OrFallback(fs, "subjectFocus")
    \o <<Label("cameraMovements")>> \o OrFallback(fs, "cameraMovements")
    \o <<Label("visualStyle")>> \o OrFallback(fs, "visualStyle")
    \o <<Label("timeOfDay")>> \o ToStr(fs["timeOfDay"])
    \o <<Label("genre")>> \o ToStr(fs["genre"])
    \o <<Label("lightingConditions")>> \o OrFallback(fs, "lightingConditions")
    \o <<Label("additionalKeywords")>> \o OrFallback(fs, "additionalKeywords")
    \o <<Label("textToSpeech")>>
    \o (IF Truthy(fs["textToSpeech"])
        THEN <<DialoguePrefix>> \o ToStr(fs["textToSpeech"]) \o <<DialogueSuffix>>
        ELSE <<NoDialogue>>)
    \o <<Label("videoFormat")>> \o ToStr(fs["videoFormat"])
    \o <<Closing>>

\* ------------------------------------------------------------------- state
VARIABLES
    generatedPrompt,    \* useState('')
    isLoading,          \* useState(false)
    error,              \* useState('')
    copyMessage,        \* useState('')
    isAuthReady,        \* useState(false)
    calls,              \* suspended generatePrompt invocations, oldest first
    timers,             \* pending setTimeout(..., 3000) callbacks, oldest first
    textAreas,          \* temporary textareas attached to document.body
    nSubmits,           \* generatePrompt invocations so far
    nCopies,            \* copyToClipboard invocations so far
    history,            \* how each settled submission settled, oldest first
    last,               \* the response of the most recently settled submission
    lastCmd,            \* what execCommand did in the most recent copy
    fields              \* the ten form fields, useState each

vars == <<generatedPrompt, isLoading, error, copyMessage, isAuthReady, calls,
          timers, textAreas, nSubmits, nCopies, history, last, lastCmd, fields>>

submission == <<generatedPrompt, error, isLoading>>

Init ==
    /\ generatedPrompt = EmptyStr
    /\ isLoading = FALSE
    /\ error = EmptyStr
    /\ copyMessage = EmptyStr
    /\ isAuthReady = FALSE
    /\ calls = <<>>
    /\ timers = <<>>
    /\ textAreas = 0
    /\ nSubmits = 0
    /\ nCopies = 0
    /\ history = <<>>
    /\ last = NoResponse
    /\ lastCmd = "none"
    /\ fields = DefaultFields

\* ----------------------------------------------------------- auth effect
\* the 100 ms timer of the mount effect fires
AuthTimerFires ==
    /\ ~isAuthReady
    /\ isAuthReady' = TRUE
    /\ UNCHANGED <<generatedPrompt, isLoading, error, copyMessage, calls,
                   timers, textAreas, nSubmits, nCopies, history, last, lastCmd, fields>>

\* ------------------------------------------------------------ form fields
\* SetField that also clears the output of the previous submission
SetFieldClearsOutput(f, v) ==
    /\ fields' = [fields EXCEPT ![f] = v]
    /\ Cardinality({g \in FieldNames : fields'[g] # DefaultFields[g]}) <= MaxEdited
    /\ generatedPrompt' = EmptyStr
    /\ UNCHANGED <<isLoading, error, copyMessage, isAuthReady, calls, timers,
                   textAreas, nSubmits, nCopies, history, last, lastCmd>>

\* onChange of the control of field f: setF(e.target.value)
SetField(f, v) ==
    /\ fields' = [fields EXCEPT ![f] = v]
    /\ Cardinality({g \in FieldNames : fields'[g] # DefaultFields[g]}) <= MaxEdited
    /\ UNCHANGED <<generatedPrompt, isLoading, error, copyMessage, isAuthReady, calls,
                   timers, textAreas, nSubmits, nCopies, history, last, lastCmd>>

\* --------------------------------------------------------- generatePrompt
\* disabled={!isAuthReady}
SubmitDisabledIgnoresLoading == ~isAuthReady

\* the submit button's disabled attribute
SubmitDisabled == isLoading \/ ~isAuthReady

NoValidContentMessage == Str(<<"Failed to generate prompt: No valid content from API.">>)

\* how the body of the try block ends: with text handed to
\* setGeneratedPrompt, in the else branch, or with an exception
Text(v) == [kind |-> "text", path |-> "text", value |-> v]
NoValid == [kind |-> "novalid", path |-> "malformed", value |-> Undefined]
Throw(path, message) == [kind |-> "throw", path |-> path, value |-> Str(message)]

\* the message without ${response.status}
ApiErrorMessageNoStatus(response, errorData) ==
    <<"API error: ">> \o <<StatusText(response.status)>> \o <<" - ">>
        \o ToStr(Or(OptGet(OptGet(errorData, "error"), "message"), Str(<<"Unknown error">>)))

\* the message of the Error thrown for a non-OK response
ApiErrorMessage(response, errorData) ==
    <<"API error: ">> \o <<ToString(response.status)>> \o <<" ">>
        \o <<StatusText(response.status)>> \o <<" - ">>
        \o ToStr(Or(OptGet(OptGet(errorData, "error"), "message"), Str(<<"Unknown error">>)))

\* if (!response.ok) { const errorData = await response.json(); throw ... }
ReadErrorBody(response) ==
    IF response.body = Unparsable
    THEN Throw("parse", SyntaxErrorMessage)
    ELSE Throw("http", ApiErrorMessage(response, response.body))

\* const result = await response.json(); if (...) {...} else {...}
ParseResult(response) ==
    LET result == response.body IN
    IF result = Unparsable THEN Throw("parse", SyntaxErrorMessage)
    ELSE IF IsNullish(result) THEN Throw("throw", TypeErrorMessage)
    ELSE LET candidates == Get(result, "candidates") IN
    IF ~(Truthy(candidates) /\ LengthPositive(candidates)) THEN NoValid
    ELSE IF IsNullish(First(candidates)) THEN Throw("throw", TypeErrorMessage)
    ELSE LET content == Get(First(candidates), "content") IN
    IF ~Truthy(content) THEN NoValid
    ELSE LET parts == Get(content, "parts") IN
    IF ~(Truthy(parts) /\ LengthPositive(parts)) THEN NoValid
    ELSE IF IsNullish(First(parts)) THEN Throw("throw", TypeErrorMessage)
    ELSE Text(Get(First(parts), "text"))

Remove(s, i) == SubSeq(s, 1, i - 1) \o SubSeq(s, i + 1, Len(s))

\* Settle with setIsLoading(false) at the end of the try block instead of in
\* a finally block
SettleWithoutFinally(i, o, response) ==
    /\ CASE o.kind = "text" -> generatedPrompt' = o.value /\ error' = error
         [] o.kind = "novalid" ->
                generatedPrompt' = generatedPrompt /\ error' = NoValidContentMessage
         [] OTHER ->
                /\ generatedPrompt' = generatedPrompt
                /\ error' = Str(<<"Error generating prompt: ">> \o ToStr(o.value))
    /\ isLoading' = IF o.kind = "throw" THEN isLoading ELSE FALSE
    /\ calls' = Remove(calls, i)
    /\ history' = Append(history, o.path)
    /\ last' = response
    /\ UNCHANGED <<copyMessage, isAuthReady, timers, textAreas, nSubmits, nCopies, lastCmd, fields>>

\* Settle with a catch block that issues the request again
SettleRetries(i, o, response) ==
    /\ CASE o.kind = "text" -> generatedPrompt' = o.value /\ error' = error
         [] o.kind = "novalid" ->
                generatedPrompt' = generatedPrompt /\ error' = NoValidContentMessage
         [] OTHER ->
                /\ generatedPrompt' = generatedPrompt
                /\ error' = Str(<<"Error generating prompt: ">> \o ToStr(o.value))
    /\ isLoading' = FALSE
    /\ calls' = IF o.kind = "throw" /\ Len(history) + 1 < nSubmits + MaxSubmits
                THEN [calls EXCEPT ![i].pc = "fetch"]
                ELSE Remove(calls, i)
    /\ history' = Append(history, o.path)
    /\ last' = response
    /\ UNCHANGED <<copyMessage, isAuthReady, timers, textAreas, nSubmits, nCopies, lastCmd, fields>>

\* the state updates that end invocation i: the branch taken in the try
\* block, the catch block and the finally block
Settle(i, o, response) ==
    /\ CASE o.kind = "text" -> generatedPrompt' = o.value /\ error' = error
         [] o.kind = "novalid" ->
                generatedPrompt' = generatedPrompt /\ error' = NoValidContentMessage
         [] OTHER ->
                /\ generatedPrompt' = generatedPrompt
                /\ error' = Str(<<"Error generating prompt: ">> \o ToStr(o.value))
    /\ isLoading' = FALSE
    /\ calls' = Remove(calls, i)
    /\ history' = Append(history, o.path)
    /\ last' = response
    /\ UNCHANGED <<copyMessage, isAuthReady, timers, textAreas, nSubmits, nCopies, lastCmd, fields>>

\* generatePrompt without setError('')
generatePromptKeepsError ==
    /\ ~SubmitDisabled
    /\ nSubmits < MaxSubmits
    /\ generatedPrompt' = EmptyStr
    /\ copyMessage' = EmptyStr
    /\ isLoading' = TRUE
    /\ calls' = Append(calls, [pc |-> "fetch", response |-> NoResponse,
                               request |-> PromptText(fields)])
    /\ nSubmits' = nSubmits + 1
    /\ UNCHANGED <<error, isAuthReady, timers, textAreas, nCopies, history, last, lastCmd, fields>>

\* onClick of the submit button, up to the first await
generatePrompt ==
    /\ ~SubmitDisabled
    /\ nSubmits < MaxSubmits
    /\ generatedPrompt' = EmptyStr
    /\ error' = EmptyStr
    /\ copyMessage' = EmptyStr
    /\ isLoading' = TRUE
    /\ calls' = Append(calls, [pc |-> "fetch", response |-> NoResponse,
                               request |-> PromptText(fields)])
    /\ nSubmits' = nSubmits + 1
    /\ UNCHANGED <<isAuthReady, timers, textAreas, nCopies, history, last, lastCmd, fields>>

\* await fetch(...) rejects (network failure)
FetchRejects(i) ==
    /\ calls[i].pc = "fetch"
    /\ Settle(i, Throw("fetch", FetchErrorMessage), NoResponse)

\* await fetch(...) resolves with a response
FetchResolves(i, response) ==
    /\ calls[i].pc = "fetch"
    /\ calls' = [calls EXCEPT ![i].pc = IF Ok(response) THEN "result" ELSE "errorData",
                          ![i].response = response]
    /\ UNCHANGED <<generatedPrompt, isLoading, error, copyMessage, isAuthReady,
                   timers, textAreas, nSubmits, nCopies, history, last, lastCmd, fields>>

\* await response.json() of the non-OK branch settles
ErrorDataSettles(i) ==
    /\ calls[i].pc = "errorData"
    /\ Settle(i, ReadErrorBody(calls[i].response), calls[i].response)

\* await response.json() of the OK branch settles
ResultSettles(i) ==
    /\ calls[i].pc = "result"
    /\ Settle(i, ParseResult(calls[i].response), calls[i].response)

\* --------------------------------------------------------- copyToClipboard
CopiedMessage == Str(<<"Prompt disalin!">>)
CopyFailedMessage == Str(<<"Gagal menyalin prompt.">>)

\* onClick of the copy button, which is rendered when generatedPrompt is truthy
copyToClipboard(cmd) ==
    /\ Truthy(generatedPrompt)
    /\ nCopies < MaxCopies
    /\ IF cmd = "throw"
       THEN \* appendChild ran, removeChild did not; the catch block
            /\ textAreas' = textAreas + 1
            /\ copyMessage' = CopyFailedMessage
            /\ timers' = timers
       ELSE \* the return value of execCommand is not looked at
            /\ textAreas' = (textAreas + 1) - 1
            /\ copyMessage' = CopiedMessage
            /\ timers' = Append(timers, nCopies + 1)
    /\ nCopies' = nCopies + 1
    /\ lastCmd' = cmd
    /\ UNCHANGED <<generatedPrompt, isLoading, error, isAuthReady, calls,
                   nSubmits, history, last, fields>>

\* a setTimeout(() => setCopyMessage(''), 3000) callback runs; equal delays
\* fire in the order they were scheduled
CopyTimerFires ==
    /\ timers # <<>>
    /\ copyMessage' = EmptyStr
    /\ timers' = Tail(timers)
    /\ UNCHANGED <<generatedPrompt, isLoading, error, isAuthReady, calls,
                   textAreas, nSubmits, nCopies, history, last, lastCmd, fields>>

\* ------------------------------------------------------------ specification
Next ==
    \/ AuthTimerFires
    \/ generatePrompt
    \/ \E i \in 1..Len(calls) : FetchRejects(i)
    \/ \E i \in 1..Len(calls), response \in Responses : FetchResolves(i, response)
    \/ \E i \in 1..Len(calls) : ErrorDataSettles(i)
    \/ \E i \in 1..Len(calls) : ResultSettles(i)
    \/ \E cmd \in ExecCommandOutcomes : copyToClipboard(cmd)
    \/ CopyTimerFires

\* the submission and copy machinery on every response, the form left as it is
Spec == Init /\ [][Next]_vars

\* the responses explored together with field edits: a text, a first part
\* without text, an error with a server message, an error body that is not JSON
FormResponses ==
    { [status |-> 200, body |-> Candidates(Arr(<<Part(Str(<<"X">>))>>))],
      [status |-> 200, body |-> Candidates(Arr(<<EmptyObj>>))],
      [status |-> 500, body |-> ErrorBody(Str(<<"server down">>))],
      [status |-> 404, body |-> Unparsable] }

FormNext ==
    \/ AuthTimerFires
    \/ \E f \in FieldNames : \E v \in FieldValues(f) : SetField(f, v)
    \/ generatePrompt
    \/ \E i \in 1..Len(calls) : FetchRejects(i)
    \/ \E i \in 1..Len(calls), response \in FormResponses : FetchResolves(i, response)
    \/ \E i \in 1..Len(calls) : ErrorDataSettles(i)
    \/ \E i \in 1..Len(calls) : ResultSettles(i)
    \/ \E cmd \in ExecCommandOutcomes : copyToClipboard(cmd)
    \/ CopyTimerFires

\* the same machinery with the user editing the form at any moment
FormSpec == Init /\ [][FormNext]_vars

\* every content of the form
Forms ==
    [sceneDescription : FieldValues("sceneDescription"),
     subjectFocus : FieldValues("subjectFocus"),
     cameraMovements : FieldValues("cameraMovements"),
     visualStyle : FieldValues("visualStyle"),
     timeOfDay : FieldValues("timeOfDay"),
     genre : FieldValues("genre"),
     lightingConditions : FieldValues("lightingConditions"),
     additionalKeywords : FieldValues("additionalKeywords"),
     textToSpeech : FieldValues("textToSpeech"),
     videoFormat : FieldValues("videoFormat")]

PromptInit ==
    /\ generatedPrompt = EmptyStr
    /\ isLoading = FALSE
    /\ error = EmptyStr
    /\ copyMessage = EmptyStr
    /\ isAuthReady = FALSE
    /\ calls = <<>>
    /\ timers = <<>>
    /\ textAreas = 0
    /\ nSubmits = 0
    /\ nCopies = 0
    /\ history = <<>>
    /\ last = NoResponse
    /\ lastCmd = "none"
    /\ fields \in Forms

PromptNext ==
    \/ AuthTimerFires
    \/ generatePrompt

\* generatePrompt building the instruction string from any content of the form
PromptSpec == PromptInit /\ [][PromptNext]_vars

TypeOK ==
    /\ isLoading \in BOOLEAN
    /\ isAuthReady \in BOOLEAN
    /\ generatedPrompt.type \in {"string", "undefined"}
    /\ error.type = "string"
    /\ copyMessage \in {EmptyStr, CopiedMessage, CopyFailedMessage}
    /\ textAreas \in 0..MaxCopies
    /\ nSubmits \in 0..MaxSubmits
    /\ nCopies \in 0..MaxCopies
    /\ Len(history) <= nSubmits
    /\ \A f \in FieldNames : fields[f] \in FieldValues(f)

\* ------------------------------------------------------------------ claims
Submitted == history # <<>>
AtRest == calls = <<>>

\* s has the tokens t as a contiguous part
Contains(s, t) == \E k \in 0..(Len(s) - Len(t)) : SubSeq(s, k + 1, k + Len(t)) = t

\* the body is {candidates: [{content: {parts: [{text: <string>}, ...]}}, ...]}
HasText(body) ==
    /\ body.type = "object" /\ "candidates" \in DOMAIN body.val
    /\ body.val.candidates.type = "array" /\ Len(body.val.candidates.val) > 0
    /\ body.val.candidates.val[1].type = "object"
    /\ "content" \in DOMAIN body.val.candidates.val[1].val
    /\ body.val.candidates.val[1].val.content.type = "object"
    /\ "parts" \in DOMAIN body.val.candidates.val[1].val.content.val
    /\ body.val.candidates.val[1].val.content.val.parts.type = "array"
    /\ Len(body.val.candidates.val[1].val.content.val.parts.val) > 0
    /\ body.val.candidates.val[1].val.content.val.parts.val[1].type = "object"
    /\ "text" \in DOMAIN body.val.candidates.val[1].val.content.val.parts.val[1].val
    /\ body.val.candidates.val[1].val.content.val.parts.val[1].val.text.type = "string"

TextOf(body) == body.val.candidates.val[1].val.content.val.parts.val[1].val.text

\* C1: isLoading is true exactly while a generatePrompt invocation has not
\* settled: false initially, true from the start of a submission, false again
\* once it settled by any path, and never true with nothing pending.
C1_BusyOnlyWhilePending ==
    /\ isLoading <=> ~AtRest
    /\ Len(history) + Len(calls) = nSubmits

\* two submissions settled by throwing paths and the flag is down
C1_Witness ==
    /\ ~isLoading /\ AtRest
    /\ Len(history) = 2 /\ history[1] = "fetch" /\ history[2] = "parse"

\* C2: at most one of InFlight (isLoading), Succeeded (generatedPrompt
\* non-empty) and Failed (error non-empty) holds in any state.
C2_OneStatus ==
    Cardinality({ k \in {"InFlight", "Succeeded", "Failed"} :
                    \/ k = "InFlight" /\ isLoading
                    \/ k = "Succeeded" /\ Truthy(generatedPrompt)
                    \/ k = "Failed" /\ Truthy(error) }) <= 1

\* a submission started from Failed, which had to drop the error, is in flight
C2_Witness ==
    /\ isLoading /\ Len(history) = 1 /\ history[1] = "http"
    /\ ~Truthy(error) /\ ~Truthy(generatedPrompt)

\* C3: at most one generatePrompt invocation is unsettled at any time; the
\* submit control is disabled while one is.
C3_OneInFlight ==
    /\ Len(calls) <= 1
    /\ ~AtRest => SubmitDisabled

\* the second submission is in flight while a copy timer is still pending
C3_Witness ==
    /\ Len(calls) = 1 /\ nSubmits = 2 /\ SubmitDisabled /\ timers # <<>>

\* C4: once a submission settled on an HTTP success response whose
\* candidates[0].content.parts[0].text is a string X, generatedPrompt is
\* exactly X, error is empty and isLoading is false.
C4_TextIsShown ==
    (Submitted /\ AtRest /\ Ok(last) /\ HasText(last.body)) =>
        /\ generatedPrompt = TextOf(last.body)
        /\ error = EmptyStr
        /\ ~isLoading

\* the response with two parts settled and the first part's text is shown
C4_Witness ==
    /\ Submitted /\ AtRest /\ Ok(last) /\ HasText(last.body)
    /\ Len(last.body.val.candidates.val[1].val.content.val.parts.val) = 2
    /\ generatedPrompt = Str(<<"Y">>)

\* the success bodies the claim C5 lists: the candidates list missing or
\* empty, the first candidate without content, the content without parts or
\* with an empty parts list, the first part without a text field
LacksText(body) ==
    /\ body.type = "object"
    /\ \/ "candidates" \notin DOMAIN body.val
       \/ body.val.candidates.val = <<>>
       \/ /\ body.val.candidates.val[1].type = "object"
          /\ \/ "content" \notin DOMAIN body.val.candidates.val[1].val
             \/ "parts" \notin DOMAIN body.val.candidates.val[1].val.content.val
             \/ body.val.candidates.val[1].val.content.val.parts.val = <<>>
             \/ /\ body.val.candidates.val[1].val.content.val.parts.val[1].type = "object"
                /\ "text" \notin DOMAIN
                       body.val.candidates.val[1].val.content.val.parts.val[1].val

\* C5: once a submission settled on an HTTP success response whose first
\* candidate's first part holds no text, error is the fixed "No valid content"
\* message and generatedPrompt is empty.
C5_MalformedIsFailed ==
    (Submitted /\ AtRest /\ Ok(last) /\ LacksText(last.body)) =>
        /\ error = NoValidContentMessage
        /\ generatedPrompt = EmptyStr

\* the body is {error: {message: <string>}}
HasServerMessage(body) ==
    /\ body.type = "object" /\ "error" \in DOMAIN body.val
    /\ body.val.error.type = "object" /\ "message" \in DOMAIN body.val.error.val
    /\ body.val.error.val.message.type = "string"

\* an HTTP response with a non-success status settled the last submission
SettledNonOk == Submitted /\ AtRest /\ last # NoResponse /\ ~Ok(last)

\* C6 as stated: once a submission settled on any HTTP non-success response,
\* generatedPrompt is empty and error contains the status code, and the
\* server's error.message when the body carries one.
C6_Original ==
    SettledNonOk =>
        /\ generatedPrompt = EmptyStr
        /\ Truthy(error)
        /\ Contains(error.val, <<ToString(last.status)>>)
        /\ HasServerMessage(last.body) =>
               Contains(error.val, last.body.val.error.val.message.val)

\* C6 as amended: the same for the non-success responses whose body parses as
\* JSON; a body that does not parse settles the submission as Failed with the
\* parse exception's message, which carries no status code.
C6_HttpErrorIsReported ==
    SettledNonOk =>
        /\ generatedPrompt = EmptyStr
        /\ Truthy(error)
        /\ last.body # Unparsable =>
               /\ Contains(error.val, <<ToString(last.status)>>)
               /\ HasServerMessage(last.body) =>
                      Contains(error.val, last.body.val.error.val.message.val)
        /\ last.body = Unparsable =>
               error = Str(<<"Error generating prompt: ">> \o SyntaxErrorMessage)

\* status 500 with body {error: {message: 'server down'}} settled
C6_Witness ==
    /\ SettledNonOk /\ last.status = 500
    /\ last.body = ErrorBody(Str(<<"server down">>))
    /\ Contains(error.val, <<"500">>) /\ Contains(error.val, <<"server down">>)

\* C7: in a Failed state no request is in flight (none was issued again) and
\* the submit control is enabled: isLoading is false and isAuthReady is true.
C7_FailedIsTerminalAndUsable ==
    Truthy(error) =>
        /\ AtRest
        /\ Len(history) = nSubmits
        /\ ~isLoading /\ isAuthReady
        /\ ~SubmitDisabled

\* a submission started after a failed one; it failed as well
C7_Witness ==
    /\ Truthy(error) /\ Len(history) = 2
    /\ history[1] = "fetch" /\ history[2] = "malformed"

\* a submission started after a failed one and reached Succeeded
C7_SucceededAfterFailed ==
    /\ Truthy(generatedPrompt) /\ Len(history) = 2
    /\ history[1] \in {"fetch", "parse", "http", "malformed", "throw"}
    /\ history[2] = "text"

\* C8: between copyToClipboard calls no temporary textarea is attached to the
\* document.
C8_NoTextAreaLeft == textAreas = 0

\* C9: every copyToClipboard call that leaves copyMessage non-empty schedules
\* a timer that resets it.
C9_NotificationHasTimer ==
    [][(nCopies' # nCopies /\ Truthy(copyMessage')) =>
           Len(timers') = Len(timers) + 1]_vars

\* C10: a copyToClipboard call whose copy command reports failure or throws
\* shows the failure notification and leaves generatedPrompt, error and
\* isLoading as they were.
C10_CopyFailureIsReported ==
    [][(nCopies' # nCopies /\ lastCmd' \in {"false", "throw"}) =>
           (copyMessage' = CopyFailedMessage /\ UNCHANGED submission)]_vars

\* the order of the slots in the template
SlotOrder == <<"sceneDescription", "subjectFocus", "cameraMovements", "visualStyle",
               "timeOfDay", "genre", "lightingConditions", "additionalKeywords",
               "textToSpeech", "videoFormat">>

Position(text, token) == CHOOSE p \in 1..Len(text) : text[p] = token

\* the tokens of text between the k-th label and the next label (or the
\* closing paragraph)
Slot(text, k) ==
    SubSeq(text,
           Position(text, Label(SlotOrder[k])) + 1,
           Position(text, IF k < Len(SlotOrder) THEN Label(SlotOrder[k + 1]) ELSE Closing) - 1)

FieldsWithFallback == {"sceneDescription", "subjectFocus", "cameraMovements",
                       "visualStyle", "lightingConditions", "additionalKeywords"}

\* what the claim C11 puts in the slot of field f
Expected(fs, f) ==
    CASE f = "textToSpeech" /\ fs[f].val # <<>> ->
            <<DialoguePrefix>> \o fs[f].val \o <<DialogueSuffix>>
      [] f = "textToSpeech" /\ fs[f].val = <<>> -> <<NoDialogue>>
      [] f # "textToSpeech" /\ fs[f].val # <<>> -> fs[f].val
      [] f \in FieldsWithFallback /\ fs[f].val = <<>> -> <<Fallback(f)>>
      [] OTHER -> <<>>

C12_EditsTouchOnlyTheirField ==
    [][fields' # fields =>
           /\ Cardinality({f \in FieldNames : fields'[f] # fields[f]}) = 1
           /\ UNCHANGED <<submission, calls>>]_vars

\* a request is in flight whose instruction string is no longer the one of
\* the form on screen
C12_Witness ==
    /\ Len(calls) = 1 /\ isLoading
    /\ calls[1].request # PromptText(fields)
    /\ calls[1].request = PromptText(DefaultFields)

\* a submission settled as Succeeded while the form differed from the
\* snapshot that was sent
C12_SettledAfterEdit ==
    /\ AtRest /\ Len(history) = 1 /\ history[1] = "text"
    /\ generatedPrompt = Str(<<"X">>)
    /\ fields # DefaultFields

\* C13: a non-empty copyMessage is cleared only by the start of a submission
\* or by the timer of the copy call that set it (the latest copy call).
C13_ClearedByOwnTimer ==
    [][(Truthy(copyMessage) /\ ~Truthy(copyMessage') /\ nSubmits' = nSubmits) =>
           (timers # <<>> /\ Head(timers) = nCopies)]_vars

====
